---- MODULE Spec2Model ----
(***************************************************************************)
(* Model of deployment/src/score.py: the scoring handler of an Azure ML    *)
(* online deployment.  init() loads the model and creates three telemetry  *)
(* collectors into module globals; run(raw_data) parses a JSON payload     *)
(* into a DataFrame, emits it, predicts, adds the prediction column, emits *)
(* the prediction column and the combined table and returns the            *)
(* predictions as a list.                                                  *)
(*                                                                         *)
(* Several run() invocations may be in flight at once (one per worker of   *)
(* the hosting server); every statement of run() that touches a collector  *)
(* or the model is one step, so the steps of different invocations         *)
(* interleave freely.  A worker that has finished an invocation takes the  *)
(* next request: the locals of the finished invocation are gone.           *)
(***************************************************************************)
EXTENDS Integers, Sequences, FiniteSets

(* ------------------------------ bounds --------------------------------- *)
MaxWorkers == 2    \* run() invocations the host keeps in flight at once
MaxRows    == 2    \* largest number of rows of a request table

Workers == 1..MaxWorkers

(* ------------------------- values of the program ----------------------- *)
\* a Python global that has not been assigned yet
Unbound == "Unbound"

\* the object mlflow.sklearn.load_model returns
LoadedModel == "sklearn_model"

\* the column run() adds to the table
PredictionColumn == "Predicted_Temperature"

\* the columns the model was trained on
FeatureSchema == <<"feature_a", "feature_b">>

NoTable == [cols |-> <<>>, rows |-> <<>>]

NoPayload == [kind |-> "none", cols |-> <<>>, rows |-> <<>>]

(* --------------------------- request payloads -------------------------- *)
\* a column list that already has a column with the name run() adds
ClashingColumns == <<PredictionColumn, "feature_a">>

\* n rows of k values: <<1, 2>>, <<3, 4>>, ... for two columns
TableRows(n, k) == [i \in 1..n |-> [j \in 1..k |-> k * (i - 1) + j]]

\* tables of 0..MaxRows rows with the model's columns, and a table of one
\* row with the clashing column
TablePayloads ==
    { [kind |-> "table", cols |-> FeatureSchema, rows |-> TableRows(n, 2)] :
          n \in 0..MaxRows }
    \cup { [kind |-> "table", cols |-> ClashingColumns, rows |-> TableRows(1, 2)] }

\* invalid JSON, a JSON object without "data", {"data": "not-a-table"}
MalformedPayloads ==
    { [kind |-> k, cols |-> <<>>, rows |-> <<>>] :
          k \in {"badjson", "nodata", "notatable"} }

Payloads == TablePayloads \cup MalformedPayloads

(* ----------------------------- pure helpers ---------------------------- *)
\* json.loads(raw_data) raises on text that is not JSON
json_loads_raises(raw) == raw.kind = "badjson"

\* json_data['data'] raises KeyError when the key is absent
get_data_raises(raw) == raw.kind = "nodata"

DataFrame_accepts(raw) == FALSE

\* pd.DataFrame(scoring_data) raises ValueError on a scalar such as a string
DataFrame_raises(raw) == raw.kind = "notatable"

\* pd.DataFrame(scoring_data): columns and rows in the order of the data
DataFrame(raw) ==
    IF raw.kind = "table" THEN [cols |-> raw.cols, rows |-> raw.rows]
    ELSE NoTable

HasColumn(df, name) == \E j \in 1..Len(df.cols) : df.cols[j] = name

ColumnIndex(df, name) == CHOOSE j \in 1..Len(df.cols) : df.cols[j] = name

SetColumn_front(df, name, values) ==
    [cols |-> <<name>> \o df.cols,
     rows |-> [i \in 1..Len(df.rows) |-> <<values[i]>> \o df.rows[i]]]

\* df[name] = values: an existing column is overwritten where it stands, a
\* new column is appended after the last one
SetColumn(df, name, values) ==
    IF HasColumn(df, name)
    THEN [cols |-> df.cols,
          rows |-> [i \in 1..Len(df.rows) |->
                      [df.rows[i] EXCEPT ![ColumnIndex(df, name)] = values[i]]]]
    ELSE [cols |-> Append(df.cols, name),
          rows |-> [i \in 1..Len(df.rows) |-> Append(df.rows[i], values[i])]]

\* df[[name]]: a new table holding only that column
SelectColumn(df, name) ==
    [cols |-> <<name>>,
     rows |-> [i \in 1..Len(df.rows) |-> <<df.rows[i][ColumnIndex(df, name)]>>]]

RECURSIVE SumSeq(_)
SumSeq(s) == IF s = <<>> THEN 0 ELSE Head(s) + SumSeq(Tail(s))

\* the regression function of the model: one number for one row
PredictRow(row) == SumSeq(row)

\* the model library may reject a table whose columns are not those it was
\* trained on; whether it does depends on how the model was fitted
PredictMayRaise(df) == df.cols # FeatureSchema

\* list(predictions)
ToList(p) == [i \in 1..Len(p) |-> p[i]]

(* -------------------------------- state -------------------------------- *)
VARIABLES
    phase,                    \* position of init(): start, loaded, c1, c2, ready, failed
    model,                    \* global model
    inputs_collector,         \* global inputs_collector
    outputs_collector,        \* global outputs_collector
    inputs_outputs_collector, \* global inputs_outputs_collector
    pc,                       \* position of the run() invocation of each worker
    payload,                  \* raw_data of the invocation
    heap,                     \* the DataFrame object the invocation created
    input_df,                 \* local input_df: 0 or a reference into heap
    output_df,                \* local output_df: 0 or a reference into heap
    context,                  \* local context: 0 or a token
    predictions,              \* local predictions
    result,                   \* value returned by run()
    events,                   \* what the invocation did to the collectors and the model
    kept                      \* a response of an earlier invocation, kept by its caller

globals == <<model, inputs_collector, outputs_collector, inputs_outputs_collector>>

locals == <<payload, heap, input_df, output_df, context, predictions, result>>

vars == <<phase, globals, pc, locals, events, kept>>

NoResponse == [payload |-> NoPayload, result |-> <<>>]

Init ==
    /\ phase = "start"
    /\ model = Unbound
    /\ inputs_collector = Unbound
    /\ outputs_collector = Unbound
    /\ inputs_outputs_collector = Unbound
    /\ pc = [w \in Workers |-> "idle"]
    /\ payload = [w \in Workers |-> NoPayload]
    /\ heap = [w \in Workers |-> NoTable]
    /\ input_df = [w \in Workers |-> 0]
    /\ output_df = [w \in Workers |-> 0]
    /\ context = [w \in Workers |-> 0]
    /\ predictions = [w \in Workers |-> <<>>]
    /\ result = [w \in Workers |-> <<>>]
    /\ events = [w \in Workers |-> <<>>]
    /\ kept = NoResponse

(* -------------------------------- init() ------------------------------- *)
InitFailure_swallowed == "ready"

\* an exception raised inside init() leaves init(): nothing catches it
InitFailure == "failed"

runIdle == UNCHANGED <<pc, locals, events, kept>>

\* model = mlflow.sklearn.load_model(model_path)
InitLoadModel ==
    /\ phase = "start"
    /\ \E ok \in BOOLEAN :
         IF ok THEN /\ model' = LoadedModel
                    /\ phase' = "loaded"
               ELSE /\ model' = model
                    /\ phase' = InitFailure
    /\ UNCHANGED <<inputs_collector, outputs_collector, inputs_outputs_collector>>
    /\ runIdle

\* inputs_collector = Collector(name='model_inputs')
InitInputsCollector ==
    /\ phase = "loaded"
    /\ \E ok \in BOOLEAN :
         IF ok THEN /\ inputs_collector' = "model_inputs"
                    /\ phase' = "c1"
               ELSE /\ inputs_collector' = inputs_collector
                    /\ phase' = InitFailure
    /\ UNCHANGED <<model, outputs_collector, inputs_outputs_collector>>
    /\ runIdle

\* outputs_collector = Collector(name='model_outputs')
InitOutputsCollector ==
    /\ phase = "c1"
    /\ \E ok \in BOOLEAN :
         IF ok THEN /\ outputs_collector' = "model_outputs"
                    /\ phase' = "c2"
               ELSE /\ outputs_collector' = outputs_collector
                    /\ phase' = InitFailure
    /\ UNCHANGED <<model, inputs_collector, inputs_outputs_collector>>
    /\ runIdle

\* inputs_outputs_collector = Collector(name='model_inputs_outputs'); print
InitInputsOutputsCollector ==
    /\ phase = "c2"
    /\ \E ok \in BOOLEAN :
         IF ok THEN /\ inputs_outputs_collector' = "model_inputs_outputs"
                    /\ phase' = "ready"
               ELSE /\ inputs_outputs_collector' = inputs_outputs_collector
                    /\ phase' = InitFailure
    /\ UNCHANGED <<model, inputs_collector, outputs_collector>>
    /\ runIdle

(* ----------------------------- the host -------------------------------- *)
\* the hosting server calls run() only after init() has returned
HostServing == phase = "ready"

\* a worker takes a request when it runs no invocation
WorkerFree(w) == pc[w] \in {"idle", "returned", "raised"}

\* the caller of a finished invocation may keep the list it was sent
KeepResponse(w) ==
    IF pc[w] = "returned" /\ kept = NoResponse
    THEN kept' \in {kept, [payload |-> payload[w], result |-> result[w]]}
    ELSE kept' = kept

(* ------------------------------ the model ----------------------------- *)
Predict_reversed(df) ==
    [i \in 1..Len(df.rows) |-> PredictRow(df.rows[Len(df.rows) + 1 - i])]

Predict_stateful(df) ==
    [i \in 1..Len(df.rows) |->
        PredictRow(df.rows[i]) + Cardinality({v \in Workers : pc[v] = "returned"})]

\* model.predict(input_df): one prediction per row, in row order
Predict(df) == [i \in 1..Len(df.rows) |-> PredictRow(df.rows[i])]

(* -------------------------------- run() -------------------------------- *)
Event(op, table, ctx, ref) == [op |-> op, table |-> table, ctx |-> ctx, ref |-> ref]

\* the token a collector hands out for an inputs emission: a new one for
\* every call, named after the invocation that asked for it
NewContext(w) == w

Raise(w) == pc' = [pc EXCEPT ![w] = "raised"]

\* a call of run(): new locals
NewFrame(w) ==
    /\ output_df' = [output_df EXCEPT ![w] = 0]
    /\ context' = [context EXCEPT ![w] = 0]
    /\ predictions' = [predictions EXCEPT ![w] = <<>>]
    /\ result' = [result EXCEPT ![w] = <<>>]
    /\ events' = [events EXCEPT ![w] = <<>>]

RunParse_shared(w) ==
    /\ HostServing
    /\ WorkerFree(w)
    /\ KeepResponse(w)
    /\ NewFrame(w)
    /\ \E raw \in Payloads :
         /\ payload' = [payload EXCEPT ![w] = raw]
         /\ IF json_loads_raises(raw) \/ get_data_raises(raw) \/ DataFrame_raises(raw)
            THEN /\ Raise(w)
                 /\ heap' = [heap EXCEPT ![w] = NoTable]
                 /\ input_df' = [input_df EXCEPT ![w] = 0]
            ELSE /\ heap' = [v \in Workers |-> DataFrame(raw)]
                 /\ input_df' = [input_df EXCEPT ![w] = w]
                 /\ pc' = [pc EXCEPT ![w] = "collect_inputs"]
    /\ UNCHANGED <<phase, globals>>

\* lines 23-30: json.loads, ['data'], pd.DataFrame, print
RunParse(w) ==
    /\ HostServing
    /\ WorkerFree(w)
    /\ KeepResponse(w)
    /\ NewFrame(w)
    /\ \E raw \in Payloads :
         /\ payload' = [payload EXCEPT ![w] = raw]
         /\ IF json_loads_raises(raw) \/ get_data_raises(raw) \/ DataFrame_raises(raw)
            THEN /\ Raise(w)
                 /\ heap' = [heap EXCEPT ![w] = NoTable]
                 /\ input_df' = [input_df EXCEPT ![w] = 0]
            ELSE /\ heap' = [heap EXCEPT ![w] = DataFrame(raw)]
                 /\ input_df' = [input_df EXCEPT ![w] = w]
                 /\ pc' = [pc EXCEPT ![w] = "collect_inputs"]
    /\ UNCHANGED <<phase, globals>>

RunCollectInputs_global(w) ==
    /\ pc[w] = "collect_inputs"
    /\ \E ok \in BOOLEAN :
         IF ok /\ inputs_collector # Unbound
         THEN /\ events' = [events EXCEPT ![w] =
                   Append(@, Event(inputs_collector, heap[input_df[w]],
                                   NewContext(w), input_df[w]))]
              /\ context' = [v \in Workers |-> NewContext(w)]
              /\ pc' = [pc EXCEPT ![w] = "predict"]
         ELSE /\ Raise(w)
              /\ UNCHANGED <<events, context>>
    /\ UNCHANGED <<phase, globals, payload, heap, input_df, output_df,
                   predictions, result, kept>>

RunCollectInputs_rebind(w) ==
    /\ pc[w] = "collect_inputs"
    /\ \E ok \in BOOLEAN :
         IF ok /\ inputs_collector # Unbound
         THEN /\ events' = [events EXCEPT ![w] =
                   Append(@, Event(inputs_collector, heap[input_df[w]],
                                   NewContext(w), input_df[w]))]
              /\ context' = [context EXCEPT ![w] = NewContext(w)]
              /\ inputs_collector' = "context"
              /\ pc' = [pc EXCEPT ![w] = "predict"]
         ELSE /\ Raise(w)
              /\ UNCHANGED <<events, context, inputs_collector>>
    /\ UNCHANGED <<phase, model, outputs_collector, inputs_outputs_collector,
                   payload, heap, input_df, output_df, predictions, result, kept>>

\* line 32: context = inputs_collector.collect(input_df)
RunCollectInputs(w) ==
    /\ pc[w] = "collect_inputs"
    /\ \E ok \in BOOLEAN :
         IF ok /\ inputs_collector # Unbound
         THEN /\ events' = [events EXCEPT ![w] =
                   Append(@, Event(inputs_collector, heap[input_df[w]],
                                   NewContext(w), input_df[w]))]
              /\ context' = [context EXCEPT ![w] = NewContext(w)]
              /\ pc' = [pc EXCEPT ![w] = "predict"]
         ELSE /\ Raise(w)
              /\ UNCHANGED <<events, context>>
    /\ UNCHANGED <<phase, globals, payload, heap, input_df, output_df,
                   predictions, result, kept>>

\* line 34: predictions = model.predict(input_df)
RunPredict(w) ==
    /\ pc[w] = "predict"
    /\ \E ok \in BOOLEAN :
         IF (ok \/ ~PredictMayRaise(heap[input_df[w]])) /\ model # Unbound
         THEN /\ predictions' = [predictions EXCEPT ![w] = Predict(heap[input_df[w]])]
              /\ events' = [events EXCEPT ![w] =
                   Append(@, Event("predict", heap[input_df[w]], 0, input_df[w]))]
              /\ pc' = [pc EXCEPT ![w] = "assign"]
         ELSE /\ Raise(w)
              /\ UNCHANGED <<predictions, events>>
    /\ UNCHANGED <<phase, globals, payload, heap, input_df, output_df,
                   context, result, kept>>

\* lines 36-38: output_df = input_df binds the same object;
\* output_df['Predicted_Temperature'] = predictions changes that object
RunAssign(w) ==
    /\ pc[w] = "assign"
    /\ output_df' = [output_df EXCEPT ![w] = input_df[w]]
    /\ heap' = [heap EXCEPT ![input_df[w]] =
                   SetColumn(@, PredictionColumn, predictions[w])]
    /\ pc' = [pc EXCEPT ![w] = "collect_outputs"]
    /\ UNCHANGED <<phase, globals, payload, input_df, context, predictions,
                   result, events, kept>>

RunCollectOutputs_wrong(w) ==
    /\ pc[w] = "collect_outputs"
    /\ \E ok \in BOOLEAN :
         IF ok /\ inputs_outputs_collector # Unbound
         THEN /\ events' = [events EXCEPT ![w] =
                   Append(@, Event(inputs_outputs_collector,
                                   SelectColumn(heap[output_df[w]], PredictionColumn),
                                   context[w], 0))]
              /\ pc' = [pc EXCEPT ![w] = "collect_inputs_outputs"]
         ELSE /\ Raise(w)
              /\ UNCHANGED events
    /\ UNCHANGED <<phase, globals, locals, kept>>

\* line 40: outputs_collector.collect(output_df[['Predicted_Temperature']], context)
RunCollectOutputs(w) ==
    /\ pc[w] = "collect_outputs"
    /\ \E ok \in BOOLEAN :
         IF ok /\ outputs_collector # Unbound
         THEN /\ events' = [events EXCEPT ![w] =
                   Append(@, Event(outputs_collector,
                                   SelectColumn(heap[output_df[w]], PredictionColumn),
                                   context[w], 0))]
              /\ pc' = [pc EXCEPT ![w] = "collect_inputs_outputs"]
         ELSE /\ Raise(w)
              /\ UNCHANGED events
    /\ UNCHANGED <<phase, globals, locals, kept>>

\* line 42: inputs_outputs_collector.collect(output_df, context), and then
\* lines 44-48: result = list(predictions); print; return result
RunCollectInputsOutputs(w) ==
    /\ pc[w] = "collect_inputs_outputs"
    /\ \E ok \in BOOLEAN :
         IF ok /\ inputs_outputs_collector # Unbound
         THEN /\ events' = [events EXCEPT ![w] =
                   Append(@, Event(inputs_outputs_collector, heap[output_df[w]],
                                   context[w], output_df[w]))]
              /\ result' = [result EXCEPT ![w] = ToList(predictions[w])]
              /\ pc' = [pc EXCEPT ![w] = "returned"]
         ELSE /\ Raise(w)
              /\ UNCHANGED <<events, result>>
    /\ UNCHANGED <<phase, globals, payload, heap, input_df, output_df,
                   context, predictions, kept>>

Next ==
    \/ InitLoadModel
    \/ InitInputsCollector
    \/ InitOutputsCollector
    \/ InitInputsOutputsCollector
    \/ \E w \in Workers : RunParse(w)
    \/ \E w \in Workers : RunCollectInputs(w)
    \/ \E w \in Workers : RunPredict(w)
    \/ \E w \in Workers : RunAssign(w)
    \/ \E w \in Workers : RunCollectOutputs(w)
    \/ \E w \in Workers : RunCollectInputsOutputs(w)

Spec == Init /\ [][Next]_vars

(* ------------------------- what the claims use ------------------------- *)
WellFormed(raw) == raw.kind = "table" /\ raw.cols = FeatureSchema

\* the predictions of the model for the rows of a request
ExpectedPredictions(raw) == [i \in 1..Len(raw.rows) |-> PredictRow(raw.rows[i])]

\* the names of the operations an invocation has performed, in order
Ops(w) == [k \in 1..Len(events[w]) |-> events[w][k].op]

FullOps == <<"model_inputs", "predict", "model_outputs", "model_inputs_outputs">>

IsPrefix(s, t) == Len(s) <= Len(t) /\ \A k \in 1..Len(s) : s[k] = t[k]

Emissions(w) == SelectSeq(events[w], LAMBDA e : e.op # "predict")

GlobalsAsInit ==
    /\ model = LoadedModel
    /\ inputs_collector = "model_inputs"
    /\ outputs_collector = "model_outputs"
    /\ inputs_outputs_collector = "model_inputs_outputs"

(* -------------------------------- claims ------------------------------- *)
\* C1: when run() has returned for a well-formed request of n rows (n >= 0,
\* the model's feature columns), the returned list has n elements and its
\* i-th element is the model's prediction for the i-th row of the request.
C1_PredictionPerRow ==
    \A w \in Workers :
        (pc[w] = "returned" /\ WellFormed(payload[w])) =>
            /\ Len(result[w]) = Len(payload[w].rows)
            /\ \A i \in 1..Len(payload[w].rows) :
                   result[w][i] = PredictRow(payload[w].rows[i])

C1_Witness ==
    \E w \in Workers :
        /\ pc[w] = "returned"
        /\ WellFormed(payload[w])
        /\ Len(payload[w].rows) = 2
        /\ result[w] = <<3, 7>>

\* C2: the context the inputs emission of an invocation returned is the
\* context passed to its outputs emission and to its combined emission, and
\* no emission of an invocation carries the context another invocation
\* obtained.
C2_ContextPerRequest ==
    \A w \in Workers : \A k \in 1..Len(events[w]) :
        events[w][k].op \in {"model_outputs", "model_inputs_outputs"} =>
            /\ events[w][1].op = "model_inputs"
            /\ events[w][k].ctx = events[w][1].ctx
            /\ \A v \in Workers \ {w} :
                   (events[v] # <<>> /\ events[v][1].op = "model_inputs")
                       => events[w][k].ctx # events[v][1].ctx

C2_Witness ==
    \E w \in Workers : \E v \in Workers \ {w} :
        /\ Len(Emissions(w)) = 3
        /\ Len(Emissions(v)) = 3
        /\ events[w][4].ctx = context[w]
        /\ events[v][4].ctx = context[v]

\* C3 as stated: the table passed to the combined emitter has the columns of
\* the request's table followed by one more column, Predicted_Temperature,
\* whatever the columns of the request are.
C3_AlwaysOneMoreColumn ==
    \A w \in Workers : \A k \in 1..Len(events[w]) :
        events[w][k].op = "model_inputs_outputs" =>
            events[w][k].table.cols = Append(payload[w].cols, PredictionColumn)

\* C3 amended: the combined table has the columns of the request's table in
\* their order and exactly one column Predicted_Temperature holding the
\* predictions: appended after the others when the request has no column of
\* that name, and otherwise the request's own column, overwritten in place.
C3_CombinedColumns ==
    \A w \in Workers : \A k \in 1..Len(events[w]) :
        events[w][k].op = "model_inputs_outputs" =>
            LET t == events[w][k].table
                c == payload[w].cols
            IN  /\ t.cols = IF HasColumn(DataFrame(payload[w]), PredictionColumn)
                            THEN c ELSE Append(c, PredictionColumn)
                /\ Cardinality({j \in 1..Len(t.cols) : t.cols[j] = PredictionColumn}) = 1
                /\ Len(t.rows) = Len(payload[w].rows)
                /\ \A i \in 1..Len(t.rows) :
                       /\ Len(t.rows[i]) = Len(t.cols)
                       /\ t.rows[i][ColumnIndex(t, PredictionColumn)] = predictions[w][i]
                       /\ \A j \in 1..Len(c) :
                              c[j] # PredictionColumn => t.rows[i][j] = payload[w].rows[i][j]

C3_Witness ==
    \E w \in Workers : \E v \in Workers :
        /\ Len(events[w]) = 4
        /\ payload[w].cols = FeatureSchema
        /\ events[w][4].table.cols = <<"feature_a", "feature_b", PredictionColumn>>
        /\ Len(events[v]) = 4
        /\ payload[v].cols = ClashingColumns
        /\ events[v][4].table = [cols |-> ClashingColumns, rows |-> << <<3, 2>> >>]

\* C4: an invocation on a malformed payload (invalid JSON, no data field, a
\* data value that is not a table) ends in a failure of that invocation
\* alone: it emitted nothing, the process still serves, the model and the
\* three collectors are those init() set, and every other invocation that
\* has returned returned the predictions for its own request.
C4_MalformedFailsAlone ==
    \A w \in Workers :
        payload[w] \in MalformedPayloads =>
            /\ pc[w] = "raised"
            /\ events[w] = <<>>
            /\ HostServing
            /\ GlobalsAsInit
            /\ \A v \in Workers \ {w} :
                   pc[v] = "returned" =>
                       /\ result[v] = ExpectedPredictions(payload[v])
                       /\ Ops(v) = FullOps

C4_Witness ==
    \E w \in Workers : \E v \in Workers \ {w} :
        /\ payload[w].kind = "notatable"
        /\ pc[w] = "raised"
        /\ pc[v] = "returned"
        /\ WellFormed(payload[v])
        /\ result[v] = <<3>>

\* C5: when init() has failed, or only some of the model and the three
\* collectors are set, no run() invocation has started.
C5_NoRunOnPartialInit ==
    (\/ phase = "failed"
     \/ model = Unbound
     \/ inputs_collector = Unbound
     \/ outputs_collector = Unbound
     \/ inputs_outputs_collector = Unbound)
        => \A w \in Workers : pc[w] = "idle" /\ payload[w] = NoPayload

C5_Witness ==
    /\ phase = "failed"
    /\ model = LoadedModel
    /\ inputs_collector = "model_inputs"
    /\ inputs_outputs_collector = Unbound

\* C6 as stated: every run() invocation that has ended, by a return or by
\* an exception, has performed exactly three emissions: inputs, outputs,
\* combined.
C6_AlwaysThreeEmissions ==
    \A w \in Workers :
        pc[w] \in {"returned", "raised"} =>
            LET e == Emissions(w)
            IN  /\ Len(e) = 3
                /\ e[1].op = "model_inputs"
                /\ e[2].op = "model_outputs"
                /\ e[3].op = "model_inputs_outputs"

\* C6 amended: an invocation that returns has performed, in this order, the
\* inputs emission, the inference, the outputs emission and the combined
\* emission, each once; an invocation that fails has performed a proper
\* prefix of that sequence; so no invocation emits outputs or the combined
\* table without its own inputs emission before.
C6_EmissionOrder ==
    \A w \in Workers :
        /\ IsPrefix(Ops(w), FullOps)
        /\ pc[w] = "returned" <=> Ops(w) = FullOps
        /\ pc[w] = "raised" => Len(Emissions(w)) < 3

C6_Witness ==
    \E w \in Workers : \E v \in Workers \ {w} :
        /\ pc[w] = "returned"
        /\ Len(Emissions(w)) = 3
        /\ pc[v] = "raised"
        /\ Ops(v) = <<"model_inputs", "predict">>

\* C7: no step of a run() invocation, whether the invocation goes on,
\* returns or raises, changes the model or the binding of a collector.
C7_RunKeepsGlobals ==
    [][(\E w \in Workers : pc'[w] # pc[w] \/ events'[w] # events[w])
          => (globals' = globals /\ phase' = phase)]_vars

C7_Witness ==
    \E w \in Workers : \E v \in Workers \ {w} :
        /\ pc[w] = "returned"
        /\ pc[v] = "raised"
        /\ events[v] # <<>>
        /\ GlobalsAsInit

\* C8: whatever the interleaving of the invocations in flight, every table
\* an invocation emits and the list it returns are those its own request
\* determines: the request's table to the inputs emitter, the prediction
\* column alone to the outputs emitter, the request's table with the
\* prediction column to the combined emitter.
C8_InvocationsIsolated ==
    \A w \in Workers :
        LET df   == DataFrame(payload[w])
            full == SetColumn(df, PredictionColumn, ExpectedPredictions(payload[w]))
        IN  /\ \A k \in 1..Len(events[w]) :
                   LET e == events[w][k]
                   IN  /\ e.op \in {"model_inputs", "predict"} => e.table = df
                       /\ e.op = "model_outputs" =>
                              e.table = SelectColumn(full, PredictionColumn)
                       /\ e.op = "model_inputs_outputs" => e.table = full
            /\ pc[w] = "returned" => result[w] = ExpectedPredictions(payload[w])
            /\ context[w] \in {0, NewContext(w)}

C8_Witness ==
    \E w \in Workers : \E v \in Workers \ {w} :
        /\ pc[w] = "collect_inputs_outputs"
        /\ pc[v] = "collect_outputs"
        /\ payload[w] # payload[v]
        /\ Len(payload[w].rows) > 0
        /\ Len(payload[v].rows) > 0

\* C9: an invocation that returns for the payload of an earlier invocation
\* returns the list the earlier one returned, whatever was handled between
\* the two; and so do two invocations in flight together.
C9_SamePayloadSameList ==
    \A w \in Workers :
        pc[w] = "returned" =>
            /\ kept.payload = payload[w] => result[w] = kept.result
            /\ \A v \in Workers :
                   (pc[v] = "returned" /\ payload[v] = payload[w])
                       => result[v] = result[w]

C9_Witness ==
    \E w \in Workers : \E v \in Workers \ {w} :
        /\ pc[w] = "returned"
        /\ kept.payload = payload[w]
        /\ result[w] = <<3, 7>>
        /\ pc[v] = "raised"

\* C10: when run() has returned, the table object that was passed to the
\* inputs emitter still has the columns of the request and no column
\* Predicted_Temperature, and the outputs emitter was passed a table with
\* the column Predicted_Temperature alone.
C10_InputsTableUntouched ==
    \A w \in Workers :
        pc[w] = "returned" =>
            /\ heap[events[w][1].ref].cols = payload[w].cols
            /\ WellFormed(payload[w]) =>
                   ~HasColumn(heap[events[w][1].ref], PredictionColumn)
            /\ events[w][3].table.cols = <<PredictionColumn>>

====
